---- MODULE Spec2Model ----
(***************************************************************************)
(* PeekMoreIterator (src/src/peek_iterator.rs): a look-ahead adapter over  *)
(* an iterator.  The adapter state is the wrapped iterator, the queue of   *)
(* pulled but unconsumed slots (Vec<Option<Item>>) and the cursor.         *)
(* Every method is an operator from an adapter state to the pair of the    *)
(* state it leaves and the value it returns; every action applies one      *)
(* method to the current state.                                            *)
(***************************************************************************)
EXTENDS Integers, Sequences, FiniteSets, TLC

\* ------------------------------------------------------------------ bounds
\* longest source sequence wrapped by peekmore()
MaxSrcLen == 3
\* largest cursor value a step may leave behind
MaxCursor == 3
\* largest usize argument passed to a method
MaxArg == 2
\* largest number of calls of the wrapped iterator's next()
MaxPulls == 5
\* the batched runs: length of the long source, most calls of the wrapped
\* iterator's next(), most calls of the adapter's next()
LongSrcLen == 2100
MaxBatchPulls == 2200
MaxBatchNexts == 1

\* ------------------------------------------------------- program constants
\* A usize is 64 bits wide.  It is carried as four 16-bit limbs, the most
\* significant first: << a, b, c, d >> is ((a * WORD + b) * WORD + c) * WORD + d.
WORD == 65536
\* usize::MAX = 2^64 - 1
USIZE_MAX == << WORD - 1, WORD - 1, WORD - 1, WORD - 1 >>
\* fill_queue: batches above this many elements go to fill_queue_divide_conquer
FILL_BATCH_THRESHOLD == 1000
\* fill_queue_divide_conquer: const CHUNK_SIZE
CHUNK_SIZE == 500
\* peek_range: range sizes above this go to peek_range_optimized
RANGE_BATCH_THRESHOLD == 2000
\* advance_cursor_by_optimized: jumps above this go to optimize_queue_for_cursor
LARGE_JUMP_THRESHOLD == 100
\* The most slots the queue can hold: a Vec holds at most isize::MAX bytes,
\* and a slot (an Option of a reference or of a word-sized item) takes 8, so
\* isize::MAX / 8 = 2^60 - 1 slots.  Growing the queue beyond it aborts the
\* call (capacity overflow; the allocation fails before where memory is short).
VEC_MAX_LEN == << (WORD \div 16) - 1, WORD - 1, WORD - 1, WORD - 1 >>

\* ------------------------------------------------------------------ values
\* the items are told apart by their values: the item at source position i
\* is i + 1, so that a duplicated, skipped or reordered item shows
Items == 1..MaxSrcLen

\* Option<Item>: None is the empty sequence, Some(v) the one-element sequence
None == << >>
Some(v) == << v >>
OptionItems == {None} \cup {Some(v) : v \in Items}

\* the source sequences wrapped: [1, 2, .., k] for every length k up to n
Sources(n) == {[i \in 1..k |-> i] : k \in 0..n}

\* return values: a tag and a payload (an Option or a slice of Options)
RetOption(o) == [kind |-> "Option", val |-> o]
RetOk(o) == [kind |-> "Ok", val |-> o]
RetOkSelf == [kind |-> "OkSelf", val |-> None]
RetErr == [kind |-> "ElementHasBeenConsumed", val |-> None]
RetSelf == [kind |-> "Self", val |-> None]
RetSlice(sl) == [kind |-> "Slice", val |-> sl]
RetUsize(n) == [kind |-> "usize", val |-> << n >>]
RetPanic == [kind |-> "Panic", val |-> None]

\* What a call leaves and hands back: the adapter f, and the value r where
\* the call returns; a call that has panicked or aborted returns nothing.
Returned(f, r) == [self |-> f, ret |-> IF f.aborted THEN RetPanic ELSE r]

Min(a, b) == IF a < b THEN a ELSE b
Max(a, b) == IF a < b THEN b ELSE a

\* ------------------------------------------------------------------- usize
\* the usize of the natural number n, and the natural number of the usize u
usize(n) == << 0, 0, n \div WORD, n % WORD >>
nat(u) == ((u[1] * WORD + u[2]) * WORD + u[3]) * WORD + u[4]

\* `a < b` and `a <= b` on usize: the most significant limb that differs
\* decides
ULt(a, b) ==
    IF a[1] # b[1] THEN a[1] < b[1]
    ELSE IF a[2] # b[2] THEN a[2] < b[2]
    ELSE IF a[3] # b[3] THEN a[3] < b[3]
    ELSE a[4] < b[4]
ULe(a, b) == ~ULt(b, a)

\* a + b limb by limb from the least significant: the sum on 64 bits, and
\* the carry out of the most significant limb
AddWithCarry(a, b) ==
    LET s4 == a[4] + b[4]
        s3 == a[3] + b[3] + s4 \div WORD
        s2 == a[2] + b[2] + s3 \div WORD
        s1 == a[1] + b[1] + s2 \div WORD
    IN  [sum |-> << s1 % WORD, s2 % WORD, s3 % WORD, s4 % WORD >>,
         carry |-> s1 \div WORD]

\* `a + b` on usize: whether it overflows, and the value a build without
\* overflow checks leaves (a build with overflow checks panics instead)
AddOverflows(a, b) == AddWithCarry(a, b).carry = 1
wrapping_add(a, b) == AddWithCarry(a, b).sum

\* a - b limb by limb from the least significant, on 64 bits: a - b for
\* b <= a
wrapping_sub(a, b) ==
    LET d4 == a[4] - b[4]
        d3 == a[3] - b[3] + d4 \div WORD
        d2 == a[2] - b[2] + d3 \div WORD
        d1 == a[1] - b[1] + d2 \div WORD
    IN  << d1 % WORD, d2 % WORD, d3 % WORD, d4 % WORD >>

\* usize::saturating_add / usize::saturating_sub
saturating_add(a, b) == IF AddOverflows(a, b) THEN USIZE_MAX ELSE wrapping_add(a, b)
saturating_sub(a, b) == IF ULt(a, b) THEN usize(0) ELSE wrapping_sub(a, b)

\* ------------------------------------------------------ the wrapped source
\* A fused iterator over a finite sequence: items is the sequence, idx the
\* number of times its next() has been called.
SourceAt(items, i) == IF i < Len(items) THEN Some(items[i + 1]) ELSE None

IterNext(it) ==
    [it |-> [it EXCEPT !.idx = @ + 1], ret |-> SourceAt(it.items, it.idx)]

\* PeekMore::peekmore.  Besides the three fields the adapter record carries
\* `aborted`: whether the call under way has panicked or aborted; the other
\* fields are then the adapter as the call had left it at that point.
\* mutant: the first element is pulled at construction
peekmore_prefetch(items) ==
    [iterator |-> [items |-> items, idx |-> 1],
     queue |-> << SourceAt(items, 0) >>, cursor |-> usize(0),
     aborted |-> FALSE]

peekmore(items) ==
    [iterator |-> [items |-> items, idx |-> 0], queue |-> << >>,
     cursor |-> usize(0), aborted |-> FALSE]

\* ------------------------------------------------------------- fill engine
\* mutant: an item is pulled and dropped before the one that is queued
push_next_to_queue_skip(s) ==
    LET dropped == IterNext(s.iterator)
        item == IterNext(dropped.it)
    IN  [s EXCEPT !.iterator = item.it, !.queue = Append(@, item.ret)]

\* mutant: the pulled item is queued at the front
push_next_to_queue_front(s) ==
    LET item == IterNext(s.iterator)
    IN  [s EXCEPT !.iterator = item.it, !.queue = << item.ret >> \o @]

push_next_to_queue(s) ==
    LET item == IterNext(s.iterator)
    IN  [s EXCEPT !.iterator = item.it, !.queue = Append(@, item.ret)]

\* `for _ in a..b { self.push_next_to_queue() }` with k = b - a iterations:
\* the loop body k times over.  The iterations are split in two halves, the
\* state after the first half being computed before the second half starts,
\* which keeps the evaluation shallow for the batches of hundreds of pushes.
RECURSIVE PushTimes(_, _)
PushTimes(s, k) ==
    IF k <= 0 THEN s
    ELSE IF k = 1 THEN push_next_to_queue(s)
    ELSE CHOOSE after \in {PushTimes(half, k - (k \div 2)) :
                              half \in {PushTimes(s, k \div 2)}} : TRUE

\* `for _ in 0..chunks { for _ in 0..CHUNK_SIZE { push } }`
RECURSIVE PushChunks(_, _)
PushChunks(s, chunks) ==
    IF chunks <= 0 THEN s
    ELSE PushChunks(PushTimes(s, CHUNK_SIZE), chunks - 1)

\* mutant: the pushes left over after the full chunks are forgotten
fill_queue_divide_conquer_no_remainder(s, required_elements) ==
    LET current_len == Len(s.queue)
        remaining == nat(required_elements) - current_len + 1
    IN  IF remaining > CHUNK_SIZE
        THEN PushChunks(s, remaining \div CHUNK_SIZE)
        ELSE PushTimes(s, nat(required_elements) + 1 - current_len)

\* called with current_len <= required_elements < VEC_MAX_LEN, where
\* `required_elements - current_len + 1` does not overflow
fill_queue_divide_conquer(s, required_elements) ==
    LET current_len == Len(s.queue)
        remaining == nat(required_elements) - current_len + 1
    IN  IF remaining > CHUNK_SIZE
        THEN LET chunks == remaining \div CHUNK_SIZE
                 remainder == remaining % CHUNK_SIZE
             IN  PushTimes(PushChunks(s, chunks), remainder)
        ELSE PushTimes(s, nat(required_elements) + 1 - current_len)

\* A fill up to an offset below VEC_MAX_LEN pushes until the queue holds
\* required_elements + 1 slots.  A fill up to an offset of VEC_MAX_LEN or
\* more does not complete: on either path the pushes run the queue out of
\* capacity and the process aborts, nothing having been returned; at
\* usize::MAX with an empty queue `required_elements - stored_elements + 1`
\* overflows before the first push, where a build with overflow checks
\* panics with the adapter as fill_queue found it.
fill_queue(s, required_elements) ==
    LET stored_elements == usize(Len(s.queue))
    IN  IF ULe(stored_elements, required_elements)
        THEN IF ULe(VEC_MAX_LEN, required_elements)
             THEN [s EXCEPT !.aborted = TRUE]
             ELSE LET elements_needed ==
                         nat(required_elements) - Len(s.queue) + 1
                  IN  IF elements_needed > FILL_BATCH_THRESHOLD
                      THEN fill_queue_divide_conquer(s, required_elements)
                      ELSE PushTimes(s, elements_needed)
        ELSE s

\* Vec::get(i).and_then(|v| v.as_ref())
QueueGet(q, i) == IF ULt(i, usize(Len(q))) THEN q[nat(i) + 1] ELSE None

\* ------------------------------------------------------------------ cursor
\* mutant: the increment wraps to 0 at usize::MAX instead of saturating
increment_cursor_wrapping(s) == [s EXCEPT !.cursor = wrapping_add(@, usize(1))]

increment_cursor(s) == [s EXCEPT !.cursor = saturating_add(@, usize(1))]

\* mutant: the cursor falls back to the front instead of following the shift
decrement_cursor_reset(s) == [s EXCEPT !.cursor = usize(0)]

decrement_cursor(s) ==
    [s EXCEPT !.cursor = IF ULt(usize(0), @) THEN wrapping_sub(@, usize(1)) ELSE @]

reset_cursor(s) == [self |-> [s EXCEPT !.cursor = usize(0)], ret |-> RetSelf]

\* deprecated name of reset_cursor
reset_view(s) == reset_cursor(s)

\* mutant: the queue is filled up to the new cursor
advance_cursor_filling(s) ==
    LET c == [s EXCEPT !.cursor = saturating_add(@, usize(1))]
    IN  Returned(fill_queue(c, c.cursor), RetSelf)

advance_cursor(s) == [self |-> increment_cursor(s), ret |-> RetSelf]

\* `self.cursor += n`: on overflow a build with overflow checks panics and a
\* build without them wraps
advance_cursor_by(s, n, overflow_checks) ==
    IF ULt(usize(0), n)
    THEN IF AddOverflows(s.cursor, n) /\ overflow_checks
         THEN [self |-> [s EXCEPT !.aborted = TRUE], ret |-> RetPanic]
         ELSE [self |-> [s EXCEPT !.cursor = wrapping_add(@, n)], ret |-> RetSelf]
    ELSE [self |-> s, ret |-> RetSelf]

move_cursor_back(s) ==
    IF ULe(usize(1), s.cursor)
    THEN [self |-> decrement_cursor(s), ret |-> RetOkSelf]
    ELSE [self |-> s, ret |-> RetErr]

\* mutant: the failing move resets the cursor before reporting the error
move_cursor_back_by_reset(s, n) ==
    IF ULt(s.cursor, n)
    THEN [self |-> [s EXCEPT !.cursor = usize(0)], ret |-> RetErr]
    ELSE [self |-> [s EXCEPT !.cursor = wrapping_sub(@, n)], ret |-> RetOkSelf]

\* mutant: the bound check is `<=` instead of `<`
move_cursor_back_by_le(s, n) ==
    IF ULe(s.cursor, n) THEN [self |-> s, ret |-> RetErr]
    ELSE [self |-> [s EXCEPT !.cursor = wrapping_sub(@, n)], ret |-> RetOkSelf]

move_cursor_back_by(s, n) ==
    IF ULt(s.cursor, n) THEN [self |-> s, ret |-> RetErr]
    ELSE [self |-> [s EXCEPT !.cursor = wrapping_sub(@, n)], ret |-> RetOkSelf]

\* mutant: a move that is too long leaves the cursor where it is
move_cursor_back_or_reset_keep(s, n) ==
    IF ULt(s.cursor, n) THEN [self |-> s, ret |-> RetSelf]
    ELSE [self |-> [s EXCEPT !.cursor = wrapping_sub(@, n)], ret |-> RetSelf]

move_cursor_back_or_reset(s, n) ==
    IF ULt(s.cursor, n) THEN reset_cursor(s)
    ELSE [self |-> [s EXCEPT !.cursor = wrapping_sub(@, n)], ret |-> RetSelf]

\* mutant: the cursor is moved by n instead of to n
move_nth_relative(s, n) ==
    [self |-> [s EXCEPT !.cursor = saturating_add(@, n)], ret |-> RetSelf]

move_nth(s, n) == [self |-> [s EXCEPT !.cursor = n], ret |-> RetSelf]

cursor_of(s) == [self |-> s, ret |-> RetUsize(s.cursor)]

\* -------------------------------------------------------------------- peek
\* mutant: peek steps the cursor before reading
peek_advancing(s) ==
    LET f == fill_queue([s EXCEPT !.cursor = saturating_add(@, usize(1))],
                        saturating_add(s.cursor, usize(1)))
    IN  Returned(f, RetOption(QueueGet(f.queue, f.cursor)))

peek(s) ==
    LET f == fill_queue(s, s.cursor)
    IN  Returned(f, RetOption(QueueGet(f.queue, f.cursor)))

\* mutant: the offset is counted from the cursor instead of the front
peek_nth_from_cursor(s, n) ==
    LET f == fill_queue(s, saturating_add(s.cursor, n))
    IN  Returned(f, RetOption(QueueGet(f.queue, saturating_add(s.cursor, n))))

peek_nth(s, n) ==
    LET f == fill_queue(s, n)
    IN  Returned(f, RetOption(QueueGet(f.queue, n)))

\* mutant: the front is read where the cursor points
peek_first_at_cursor(s) ==
    LET f == fill_queue(s, s.cursor)
    IN  Returned(f, RetOption(QueueGet(f.queue, f.cursor)))

peek_first(s) == peek_nth(s, usize(0))

peek_next(s) == peek(advance_cursor(s).self)

peek_forward(s, n, overflow_checks) ==
    LET this == advance_cursor_by(s, n, overflow_checks)
    IN  IF this.self.aborted THEN this ELSE peek(this.self)

\* mutant: a slot past the end of the source is reported as the error
peek_previous_none_is_error(s) ==
    IF ULe(usize(1), s.cursor)
    THEN LET p == peek([s EXCEPT !.cursor = wrapping_sub(@, usize(1))])
         IN  IF p.ret.val = None THEN Returned(p.self, RetErr)
             ELSE Returned(p.self, RetOk(p.ret.val))
    ELSE [self |-> s, ret |-> RetErr]

peek_previous(s) ==
    IF ULe(usize(1), s.cursor)
    THEN LET m == move_cursor_back(s)
         IN  IF m.ret.kind = RetErr.kind THEN m
             ELSE LET p == peek(m.self)
                  IN  Returned(p.self, RetOk(p.ret.val))
    ELSE [self |-> s, ret |-> RetErr]

peek_backward(s, n) ==
    LET m == move_cursor_back_by(s, n)
    IN  IF m.ret.kind = RetErr.kind THEN m
        ELSE LET p == peek(m.self)
             IN  Returned(p.self, RetOk(p.ret.val))

peek_backward_or_first(s, n) ==
    LET m == move_cursor_back_by(s, n)
    IN  IF m.ret.kind = RetErr.kind THEN peek(reset_cursor(m.self).self)
        ELSE peek(m.self)

\* a predicate over Option<&Item>: the items it accepts, and whether it
\* accepts None
Accepts(predicate, view) ==
    IF view = None THEN predicate.none ELSE view[1] \in predicate.some

\* mutant: the cursor is stepped once more after the rejected element
RECURSIVE advance_cursor_while_overshoot(_, _)
advance_cursor_while_overshoot(s, predicate) ==
    LET view == peek(s)
    IN  IF view.self.aborted \/ ~Accepts(predicate, view.ret.val)
        THEN Returned(increment_cursor(view.self), RetSelf)
        ELSE IF view.ret.val = None
        THEN [self |-> [view.self EXCEPT !.aborted = TRUE], ret |-> RetPanic]
        ELSE advance_cursor_while_overshoot(increment_cursor(view.self),
                                            predicate)

\* mutant: the advance stops at the end of the source whatever the predicate
RECURSIVE advance_cursor_while_to_end(_, _)
advance_cursor_while_to_end(s, predicate) ==
    LET view == peek(s)
    IN  IF view.self.aborted \/ ~Accepts(predicate, view.ret.val)
        THEN Returned(view.self, RetSelf)
        ELSE IF view.ret.val = None
        THEN [self |-> view.self, ret |-> RetSelf]
        ELSE advance_cursor_while_to_end(increment_cursor(view.self), predicate)

\* The call peeks, and where the predicate holds steps the cursor and calls
\* itself.  Once the predicate has accepted a None the call cannot return:
\* the source is fused, so every nested call peeks one slot further, sees
\* None, and nests again, until the stack or the queue cannot grow and the
\* process aborts; the adapter is left here as the first such call found it.
RECURSIVE advance_cursor_while(_, _)
advance_cursor_while(s, predicate) ==
    LET view == peek(s)
    IN  IF view.self.aborted \/ ~Accepts(predicate, view.ret.val)
        THEN Returned(view.self, RetSelf)
        ELSE IF view.ret.val = None
        THEN [self |-> [view.self EXCEPT !.aborted = TRUE], ret |-> RetPanic]
        ELSE advance_cursor_while(increment_cursor(view.self), predicate)

\* The adapter as the nested call of advance_cursor_while at the given depth
\* finds it (depth 0 is the caller's call), and whether the calls nest that
\* deep or an outer call has stopped, by rejection or by an aborted peek.
RECURSIVE advance_cursor_while_nested(_, _, _)
advance_cursor_while_nested(s, predicate, depth) ==
    IF depth = 0 THEN [self |-> s, reached |-> TRUE]
    ELSE LET view == peek(s)
         IN  IF view.self.aborted \/ ~Accepts(predicate, view.ret.val)
             THEN [self |-> view.self, reached |-> FALSE]
             ELSE advance_cursor_while_nested(increment_cursor(view.self),
                                              predicate, depth - 1)

\* ------------------------------------------------------------- consumption
\* mutant: the queue is popped at the back instead of the front
next_pop_back(s) ==
    LET d == IF s.queue = << >>
             THEN LET r == IterNext(s.iterator)
                  IN  [self |-> [s EXCEPT !.iterator = r.it], res |-> r.ret]
             ELSE [self |-> [s EXCEPT !.queue = SubSeq(@, 1, Len(@) - 1)],
                   res |-> s.queue[Len(s.queue)]]
    IN  [self |-> decrement_cursor(d.self), ret |-> RetOption(d.res)]

\* mutant: the cursor is not shifted with the consumption
next_keep_cursor(s) ==
    LET d == IF s.queue = << >>
             THEN LET r == IterNext(s.iterator)
                  IN  [self |-> [s EXCEPT !.iterator = r.it], res |-> r.ret]
             ELSE [self |-> [s EXCEPT !.queue = Tail(@)], res |-> Head(s.queue)]
    IN  [self |-> d.self, ret |-> RetOption(d.res)]

\* mutant: the queue is bypassed, the source is pulled at every call
next_bypassing_queue(s) ==
    LET r == IterNext(s.iterator)
    IN  [self |-> decrement_cursor([s EXCEPT !.iterator = r.it]),
         ret |-> RetOption(r.ret)]

\* mutant: a pull that finds the source exhausted rewinds it
next_rewinding(s) ==
    LET d == IF s.queue = << >>
             THEN LET r == IterNext(s.iterator)
                  IN  [self |-> [s EXCEPT !.iterator =
                                    IF r.ret = None THEN [@ EXCEPT !.idx = 0]
                                    ELSE r.it],
                       res |-> r.ret]
             ELSE [self |-> [s EXCEPT !.queue = Tail(@)], res |-> Head(s.queue)]
    IN  [self |-> decrement_cursor(d.self), ret |-> RetOption(d.res)]

\* mutant: a call that returns None leaves the queue empty and the cursor at 0
next_resetting_at_end(s) ==
    LET d == IF s.queue = << >>
             THEN LET r == IterNext(s.iterator)
                  IN  [self |-> [s EXCEPT !.iterator = r.it], res |-> r.ret]
             ELSE [self |-> [s EXCEPT !.queue = Tail(@)], res |-> Head(s.queue)]
    IN  IF d.res = None
        THEN [self |-> [d.self EXCEPT !.queue = << >>, !.cursor = usize(0)],
              ret |-> RetOption(d.res)]
        ELSE [self |-> decrement_cursor(d.self), ret |-> RetOption(d.res)]

next(s) ==
    LET d == IF s.queue = << >>
             THEN LET r == IterNext(s.iterator)
                  IN  [self |-> [s EXCEPT !.iterator = r.it], res |-> r.ret]
             ELSE [self |-> [s EXCEPT !.queue = Tail(@)], res |-> Head(s.queue)]
    IN  [self |-> decrement_cursor(d.self), ret |-> RetOption(d.res)]

\* mutant: the predicate is tested on the element under the cursor
next_if_at_cursor(s, func) ==
    LET m == peek(s)
    IN  IF m.ret.val # None /\ m.ret.val[1] \in func
        THEN next(m.self)
        ELSE [self |-> m.self, ret |-> RetOption(None)]

\* mutant: a rejected front element is consumed all the same
next_if_consumes_anyway(s, func) ==
    LET m == peek_first(s)
    IN  IF m.ret.val # None /\ m.ret.val[1] \in func
        THEN next(m.self)
        ELSE [self |-> next(m.self).self, ret |-> RetOption(None)]

\* mutant: the look at the front buffers two slots
next_if_overfill(s, func) ==
    LET m == peek_first(fill_queue(s, usize(1)))
    IN  IF m.ret.val # None /\ m.ret.val[1] \in func
        THEN next(m.self)
        ELSE [self |-> m.self, ret |-> RetOption(None)]

\* func is the set of items it accepts
next_if(s, func) ==
    LET m == peek_first(s)
    IN  IF m.ret.val # None /\ m.ret.val[1] \in func
        THEN next(m.self)
        ELSE [self |-> m.self, ret |-> RetOption(None)]

next_if_eq(s, expected) == next_if(s, {expected})

\* ---------------------------------------------------------------- Peekable
\* core::iter::Peekable, the one-slot wrapper the cursor documentation refers
\* to: `peeked: Option<Option<Item>>` next to the wrapped iterator.
\* peek: `self.peeked.get_or_insert_with(|| iter.next()).as_ref()`
Peekable_peek(p) ==
    IF p.peeked = None
    THEN LET r == IterNext(p.iter)
         IN  [self |-> [iter |-> r.it, peeked |-> Some(r.ret)],
              ret |-> RetOption(r.ret)]
    ELSE [self |-> p, ret |-> RetOption(p.peeked[1])]

\* next: `match self.peeked.take() { Some(v) => v, None => self.iter.next() }`
Peekable_next(p) ==
    IF p.peeked = None
    THEN LET r == IterNext(p.iter)
         IN  [self |-> [iter |-> r.it, peeked |-> None], ret |-> RetOption(r.ret)]
    ELSE [self |-> [iter |-> p.iter, peeked |-> None],
          ret |-> RetOption(p.peeked[1])]

\* ------------------------------------------------------------- exact size
\* `impl Iterator` defines next() only, so size_hint is Iterator's provided
\* method, which returns (0, None) whatever the state
size_hint(s) == [lower |-> usize(0), upper |-> None]

\* `impl ExactSizeIterator for PeekMoreIterator<I> {}`: len is the provided
\* method, `assert_eq!(upper, Some(lower)); lower` over size_hint
len(s) ==
    LET hint == size_hint(s)
    IN  IF hint.upper = Some(hint.lower)
        THEN [self |-> s, ret |-> RetUsize(hint.lower)]
        ELSE [self |-> [s EXCEPT !.aborted = TRUE], ret |-> RetPanic]

\* ------------------------------------------------------------ bulk discard
\* `for _ in 0..k { let _ = self.iterator.next(); }`
RECURSIVE DiscardTimes(_, _)
DiscardTimes(it, k) ==
    IF k <= 0 THEN it ELSE DiscardTimes(IterNext(it).it, k - 1)

\* mutant: a cursor beyond the queue only clears the queue
truncate_without_overflow(s) ==
    LET t == IF ULt(s.cursor, usize(Len(s.queue)))
             THEN [s EXCEPT !.queue = SubSeq(@, nat(s.cursor) + 1, Len(@))]
             ELSE [s EXCEPT !.queue = << >>]
    IN  [self |-> [t EXCEPT !.cursor = usize(0)], ret |-> RetSelf]

\* mutant: the drained range includes the slot under the cursor
truncate_inclusive(s) ==
    LET t == IF ULt(s.cursor, usize(Len(s.queue)))
             THEN [s EXCEPT !.queue = SubSeq(@, nat(s.cursor) + 2, Len(@))]
             ELSE [s EXCEPT
                     !.iterator =
                        DiscardTimes(@, nat(saturating_sub(
                                            s.cursor, usize(Len(s.queue))))),
                     !.queue = << >>]
    IN  [self |-> [t EXCEPT !.cursor = usize(0)], ret |-> RetSelf]

\* mutant: a cursor beyond the queue discards `cursor` elements of the source
truncate_discards_cursor(s) ==
    LET t == IF ULt(s.cursor, usize(Len(s.queue)))
             THEN [s EXCEPT !.queue = SubSeq(@, nat(s.cursor) + 1, Len(@))]
             ELSE [s EXCEPT
                     !.iterator = DiscardTimes(@, nat(s.cursor)),
                     !.queue = << >>]
    IN  [self |-> [t EXCEPT !.cursor = usize(0)], ret |-> RetSelf]

\* mutant: at cursor 0 the buffered slots are cleared
truncate_clearing_at_zero(s) ==
    LET t == IF ULt(usize(0), s.cursor) /\ ULt(s.cursor, usize(Len(s.queue)))
             THEN [s EXCEPT !.queue = SubSeq(@, nat(s.cursor) + 1, Len(@))]
             ELSE [s EXCEPT
                     !.iterator =
                        DiscardTimes(@, nat(saturating_sub(
                                            s.cursor, usize(Len(s.queue))))),
                     !.queue = << >>]
    IN  [self |-> [t EXCEPT !.cursor = usize(0)], ret |-> RetSelf]

truncate_iterator_to_cursor(s) ==
    LET t == IF ULt(s.cursor, usize(Len(s.queue)))
             THEN [s EXCEPT !.queue = SubSeq(@, nat(s.cursor) + 1, Len(@))]
             ELSE [s EXCEPT
                     !.iterator =
                        DiscardTimes(@, nat(saturating_sub(
                                            s.cursor, usize(Len(s.queue))))),
                     !.queue = << >>]
    IN  [self |-> [t EXCEPT !.cursor = usize(0)], ret |-> RetSelf]

\* ------------------------------------------------------------------ ranges
\* `while current_pos < target_end { fill one chunk }`, called with
\* target_end <= VEC_MAX_LEN, where `current_pos + chunk_size` does not
\* overflow
RECURSIVE fill_queue_in_chunks(_, _, _, _)
fill_queue_in_chunks(s, current_end, target_end, chunk_size) ==
    IF current_end < target_end
    THEN LET next_end == Min(current_end + chunk_size, target_end)
         IN  fill_queue_in_chunks(PushTimes(s, next_end - current_end),
                                  next_end, target_end, chunk_size)
    ELSE s

\* &self.queue.as_slice()[start..end]
Slice(q, start, end) == SubSeq(q, nat(start) + 1, nat(end))

\* A fill to more than VEC_MAX_LEN slots does not complete: the chunk loop
\* runs the queue out of capacity and the process aborts.
peek_range_optimized(s, start, end) ==
    LET current_len == Len(s.queue)
    IN  IF ULt(usize(current_len), end) /\ ULt(VEC_MAX_LEN, end)
        THEN [self |-> [s EXCEPT !.aborted = TRUE], ret |-> RetPanic]
        ELSE LET f == IF ULt(usize(current_len), end)
                      THEN LET range_size == nat(end) - current_len
                               chunk_size == IF range_size > 10000 THEN 2000
                                             ELSE IF range_size > 5000 THEN 1000
                                             ELSE 500
                           IN  fill_queue_in_chunks(s, current_len, nat(end),
                                                    chunk_size)
                      ELSE s
             IN  [self |-> f, ret |-> RetSlice(Slice(f.queue, start, end))]

\* mutant: the view stops at the end of the source instead of being padded
peek_range_shortened(s, start, end) ==
    IF ~ULe(start, end) THEN [self |-> s, ret |-> RetPanic]
    ELSE LET f == IF ULt(usize(Len(s.queue)), end) THEN fill_queue(s, end)
                  ELSE s
         IN  [self |-> f,
              ret |-> RetSlice(SelectSeq(Slice(f.queue, start, end),
                                         LAMBDA o : o # None))]

\* peek_range, the branch for ranges up to RANGE_BATCH_THRESHOLD
peek_range_direct(s, start, end) ==
    LET f == IF ULt(usize(Len(s.queue)), end) THEN fill_queue(s, end) ELSE s
    IN  IF f.aborted THEN [self |-> f, ret |-> RetPanic]
        ELSE [self |-> f, ret |-> RetSlice(Slice(f.queue, start, end))]

peek_range(s, start, end) ==
    IF ~ULe(start, end) THEN [self |-> s, ret |-> RetPanic]
    ELSE LET range_size == wrapping_sub(end, start)
         IN  IF ULt(usize(RANGE_BATCH_THRESHOLD), range_size)
             THEN peek_range_optimized(s, start, end)
             ELSE peek_range_direct(s, start, end)

peek_amount(s, n) == peek_range(s, usize(0), n)

\* the optimized jump: the capacity estimate is computed and dropped.  The
\* estimate overflows (next_power_of_two) only for targets above 2^63, where
\* the fill does not complete either; the adapter is untouched up to there.
optimize_queue_for_cursor(s, target_cursor) ==
    IF ULe(usize(Len(s.queue)), target_cursor)
    THEN fill_queue(s, target_cursor)
    ELSE s

\* `let new_cursor = self.cursor + n`, the fill, then `self.cursor =
\* new_cursor`: a fill that does not complete leaves the cursor unassigned
advance_cursor_by_optimized(s, n, overflow_checks) ==
    IF n = usize(0) THEN [self |-> s, ret |-> RetSelf]
    ELSE IF AddOverflows(s.cursor, n) /\ overflow_checks
    THEN [self |-> [s EXCEPT !.aborted = TRUE], ret |-> RetPanic]
    ELSE LET new_cursor == wrapping_add(s.cursor, n)
             f == IF ULt(usize(LARGE_JUMP_THRESHOLD), n)
                  THEN optimize_queue_for_cursor(s, new_cursor)
                  ELSE fill_queue(s, new_cursor)
         IN  IF f.aborted THEN [self |-> f, ret |-> RetPanic]
             ELSE [self |-> [f EXCEPT !.cursor = new_cursor], ret |-> RetSelf]

\* =================================================================== state
\* iterator, queue, cursor: the fields of PeekMoreIterator.
\* passed: the positions of the source permanently passed, by next() or by
\*         truncate_iterator_to_cursor().
\* nexts:  the calls of next() made so far (next_if's included).
\* call, ret: the last method called with its arguments, and what it returned.
VARIABLES iterator, queue, cursor, passed, nexts, call, ret

vars == << iterator, queue, cursor, passed, nexts, call, ret >>

self ==
    [iterator |-> iterator, queue |-> queue, cursor |-> cursor,
     aborted |-> FALSE]

\* the adapter as the step under consideration leaves it
selfAfter ==
    [iterator |-> iterator', queue |-> queue', cursor |-> cursor',
     aborted |-> FALSE]

Call(op, n, m, set) == [op |-> op, n |-> n, m |-> m, set |-> set]

\* the usize arguments passed to the methods
Args == {usize(n) : n \in 0..MaxArg}

\* the cursor values at the top of the usize range, and the cursor values a
\* step may leave behind
HighCursors == {wrapping_sub(USIZE_MAX, usize(1)), USIZE_MAX}
CursorRange == {usize(c) : c \in 0..MaxCursor} \cup HighCursors

\* predicates handed to advance_cursor_while
WhilePredicates == [some : SUBSET Items, none : BOOLEAN]

Init ==
    /\ \E items \in Sources(MaxSrcLen) :
          /\ iterator = peekmore(items).iterator
          /\ queue = peekmore(items).queue
          /\ cursor = peekmore(items).cursor
    /\ passed = 0
    /\ nexts = 0
    /\ call = Call("peekmore", usize(0), usize(0), {})
    /\ ret = RetSelf

\* The method call c returns r, having passed dPassed positions in dNexts
\* calls of next(); or the call panics or aborts, which ends the run with the
\* adapter as the call had left it by then.
Returns(c, r, dPassed, dNexts) ==
    /\ ret.kind # "Panic"
    /\ call' = c
    /\ r.self.cursor \in CursorRange
    /\ r.self.iterator.idx <= MaxPulls
    /\ iterator' = r.self.iterator
    /\ queue' = r.self.queue
    /\ cursor' = r.self.cursor
    /\ IF r.self.aborted
       THEN /\ ret' = RetPanic
            /\ UNCHANGED << passed, nexts >>
       ELSE /\ passed' = passed + dPassed
            /\ nexts' = nexts + dNexts
            /\ ret' = r.ret

Peek == Returns(Call("peek", usize(0), usize(0), {}), peek(self), 0, 0)

PeekFirst ==
    Returns(Call("peek_first", usize(0), usize(0), {}),
            peek_first(self), 0, 0)

PeekNext ==
    Returns(Call("peek_next", usize(0), usize(0), {}),
            peek_next(self), 0, 0)

PeekPrevious ==
    Returns(Call("peek_previous", usize(0), usize(0), {}),
            peek_previous(self), 0, 0)

PeekForward ==
    \E n \in Args, overflow_checks \in BOOLEAN :
       Returns(Call("peek_forward", n, usize(0), {}),
               peek_forward(self, n, overflow_checks), 0, 0)

PeekBackward ==
    \E n \in Args :
       Returns(Call("peek_backward", n, usize(0), {}),
               peek_backward(self, n), 0, 0)

PeekBackwardOrFirst ==
    \E n \in Args :
       Returns(Call("peek_backward_or_first", n, usize(0), {}),
               peek_backward_or_first(self, n), 0, 0)

PeekNth ==
    \E n \in Args :
       Returns(Call("peek_nth", n, usize(0), {}), peek_nth(self, n), 0, 0)

PeekRange ==
    \E start \in Args \cup {USIZE_MAX}, end \in Args \cup {USIZE_MAX} :
       Returns(Call("peek_range", start, end, {}),
               peek_range(self, start, end), 0, 0)

PeekAmount ==
    \E n \in Args :
       Returns(Call("peek_amount", n, usize(0), {}), peek_amount(self, n), 0, 0)

AdvanceCursor ==
    Returns(Call("advance_cursor", usize(0), usize(0), {}),
            advance_cursor(self), 0, 0)

AdvanceCursorBy ==
    \E n \in Args, overflow_checks \in BOOLEAN :
       Returns(Call("advance_cursor_by", n, usize(0), {}),
               advance_cursor_by(self, n, overflow_checks), 0, 0)

AdvanceCursorByOptimized ==
    \E n \in Args, overflow_checks \in BOOLEAN :
       Returns(Call("advance_cursor_by_optimized", n, usize(0), {}),
               advance_cursor_by_optimized(self, n, overflow_checks), 0, 0)

AdvanceCursorWhile ==
    \E predicate \in WhilePredicates :
       Returns(Call("advance_cursor_while",
                    IF predicate.none THEN usize(1) ELSE usize(0), usize(0),
                    predicate.some),
               advance_cursor_while(self, predicate), 0, 0)

MoveCursorBack ==
    Returns(Call("move_cursor_back", usize(0), usize(0), {}),
            move_cursor_back(self), 0, 0)

MoveCursorBackBy ==
    \E n \in Args :
       Returns(Call("move_cursor_back_by", n, usize(0), {}),
               move_cursor_back_by(self, n), 0, 0)

MoveCursorBackOrReset ==
    \E n \in Args :
       Returns(Call("move_cursor_back_or_reset", n, usize(0), {}),
               move_cursor_back_or_reset(self, n), 0, 0)

MoveNth ==
    \E n \in Args \cup HighCursors :
       Returns(Call("move_nth", n, usize(0), {}), move_nth(self, n), 0, 0)

ResetCursor ==
    Returns(Call("reset_cursor", usize(0), usize(0), {}), reset_cursor(self),
            0, 0)

ResetView ==
    Returns(Call("reset_view", usize(0), usize(0), {}), reset_view(self), 0, 0)

Cursor == Returns(Call("cursor", usize(0), usize(0), {}), cursor_of(self), 0, 0)

IteratorNext == Returns(Call("next", usize(0), usize(0), {}), next(self), 1, 1)

ExactSizeLen == Returns(Call("len", usize(0), usize(0), {}), len(self), 0, 0)

\* next_if passes a position exactly when it goes on to call next()
NextIf ==
    \E func \in SUBSET Items :
       LET r == next_if(self, func)
           consumed == IF r.ret.val # None THEN 1 ELSE 0
       IN  Returns(Call("next_if", usize(0), usize(0), func), r,
                   consumed, consumed)

NextIfEq ==
    \E expected \in 1..(MaxSrcLen + 1) :
       LET r == next_if_eq(self, expected)
           consumed == IF r.ret.val # None THEN 1 ELSE 0
       IN  Returns(Call("next_if_eq", usize(0), usize(0), {expected}), r,
                   consumed, consumed)

\* (a discard loop of more than MaxPulls pulls is not followed)
TruncateIteratorToCursor ==
    /\ ULe(saturating_sub(cursor, usize(Len(queue))), usize(MaxPulls))
    /\ Returns(Call("truncate_iterator_to_cursor", usize(0), usize(0), {}),
               truncate_iterator_to_cursor(self), nat(cursor), 0)

Next ==
    \/ Peek
    \/ PeekFirst
    \/ PeekNext
    \/ PeekPrevious
    \/ PeekForward
    \/ PeekBackward
    \/ PeekBackwardOrFirst
    \/ PeekNth
    \/ PeekRange
    \/ PeekAmount
    \/ AdvanceCursor
    \/ AdvanceCursorBy
    \/ AdvanceCursorByOptimized
    \/ AdvanceCursorWhile
    \/ MoveCursorBack
    \/ MoveCursorBackBy
    \/ MoveCursorBackOrReset
    \/ MoveNth
    \/ ResetCursor
    \/ ResetView
    \/ Cursor
    \/ IteratorNext
    \/ ExactSizeLen
    \/ NextIf
    \/ NextIfEq
    \/ TruncateIteratorToCursor

Spec == Init /\ [][Next]_vars

TypeOK ==
    /\ cursor \in CursorRange
    /\ iterator.idx \in 0..MaxPulls
    /\ queue \in Seq(OptionItems)

\* ------------------------------------------------------------ batched runs
\* A second specification, for the paths taken above the batching
\* thresholds: the sources include one longer than every threshold, and the
\* fills and ranges are taken just below, at and above the thresholds.
BatchSources == Sources(MaxSrcLen) \cup {[i \in 1..LongSrcLen |-> i]}

\* fill_queue targets: elements_needed on an empty queue is the target + 1
FillTargets ==
    {usize(k) :
       k \in {0, MaxArg, FILL_BATCH_THRESHOLD - 1, FILL_BATCH_THRESHOLD,
              FILL_BATCH_THRESHOLD + CHUNK_SIZE - 1,
              FILL_BATCH_THRESHOLD + CHUNK_SIZE}}

RangeStarts == {usize(0), usize(1)}
RangeEnds ==
    {usize(MaxArg), usize(RANGE_BATCH_THRESHOLD),
     usize(RANGE_BATCH_THRESHOLD + 1)}

BatchInit ==
    /\ \E items \in BatchSources :
          /\ iterator = peekmore(items).iterator
          /\ queue = peekmore(items).queue
          /\ cursor = peekmore(items).cursor
    /\ passed = 0
    /\ nexts = 0
    /\ call = Call("peekmore", usize(0), usize(0), {})
    /\ ret = RetSelf

\* Returns, with the bounds of the batched runs
BatchReturns(c, r, dPassed, dNexts) ==
    /\ ret.kind # "Panic"
    /\ call' = c
    /\ r.self.iterator.idx <= MaxBatchPulls
    /\ iterator' = r.self.iterator
    /\ queue' = r.self.queue
    /\ cursor' = r.self.cursor
    /\ IF r.self.aborted
       THEN /\ ret' = RetPanic
            /\ UNCHANGED << passed, nexts >>
       ELSE /\ nexts + dNexts <= MaxBatchNexts
            /\ passed' = passed + dPassed
            /\ nexts' = nexts + dNexts
            /\ ret' = r.ret

\* the fill step on its own (private; every peek runs it first)
FillQueue ==
    \E required_elements \in FillTargets :
       BatchReturns(Call("fill_queue", required_elements, usize(0), {}),
                    [self |-> fill_queue(self, required_elements),
                     ret |-> RetSelf], 0, 0)

BatchPeekRange ==
    \E start \in RangeStarts, end \in RangeEnds :
       BatchReturns(Call("peek_range", start, end, {}),
                    peek_range(self, start, end), 0, 0)

BatchIteratorNext ==
    BatchReturns(Call("next", usize(0), usize(0), {}),
                 next(self), 1, 1)

BatchNext ==
    \/ FillQueue
    \/ BatchPeekRange
    \/ BatchIteratorNext

BatchSpec == BatchInit /\ [][BatchNext]_vars

\* ================================================================== claims
\* the source sequence wrapped at construction
Source == iterator.items

\* the pull result of source position i (0-based): an item, or None at and
\* past the end
Position(i) == SourceAt(Source, i)

\* the pull result at offset u (a usize) from the consumption point: None
\* for every offset that is not below the length of the source
PositionAt(u) ==
    IF ULt(u, usize(Len(Source))) THEN Position(passed + nat(u)) ELSE None

\* the value returned by the k-th of k successive next() calls from s
RECURSIVE NextTimes(_, _)
NextTimes(s, k) == IF k <= 1 THEN next(s) ELSE NextTimes(next(s).self, k - 1)

BackwardOps ==
    {"move_cursor_back", "move_cursor_back_by", "peek_previous", "peek_backward"}

\* C1: in every reachable state the queue is the in-order run of the pull
\* results of source positions [passed, passed + Len(queue)), and the source
\* has been pulled exactly passed + Len(queue) times (nothing pulled twice,
\* skipped or reordered; a recorded end-of-source slot is not probed again).
C1_QueueIsContiguousRun ==
    /\ iterator.idx = passed + Len(queue)
    /\ \A i \in 1..Len(queue) : queue[i] = Position(passed + i - 1)

C1_Witness ==
    /\ nexts >= 1
    /\ passed > nexts
    /\ Len(queue) >= 2
    /\ queue[1] # None
    /\ queue[Len(queue)] = None

\* C2: as long as nothing was discarded by truncation, the k-th next() call
\* returns the k-th element of the source, and None once k exceeds its length.
C2_NextYieldsSourceInOrder ==
    (call.op = "next" /\ passed = nexts) => ret = RetOption(Position(nexts - 1))

C2_Witness ==
    /\ call.op = "next"
    /\ passed = nexts
    /\ nexts >= 2
    /\ ret.val # None
    /\ Len(queue) >= 1
    /\ ULe(usize(1), cursor)

\* C3: in every reachable state peek_nth(n) returns the element at offset n
\* from the consumption point, which is what the (n+1)-th following next()
\* would return (None at or past the end), and leaves the cursor unchanged;
\* peek_first() returns the element the next next() would return.
C3_PeekNthIsOffsetFromFront ==
    /\ \A n \in 0..(MaxArg + 1) :
          LET r == peek_nth(self, usize(n))
          IN  /\ r.ret = RetOption(Position(passed + n))
              /\ r.ret = NextTimes(self, n + 1).ret
              /\ r.self.cursor = cursor
    /\ peek_first(self).ret = next(self).ret
    /\ peek_first(self).self.cursor = cursor
    /\ call.op = "peek_nth" => ret = RetOption(PositionAt(call.n))
    /\ call.op = "peek_first" => ret = RetOption(Position(passed))

C3_Witness ==
    /\ call.op = "peek_nth"
    /\ call.n = usize(1)
    /\ passed >= 1
    /\ ULt(call.n, cursor)
    /\ ret.val # None

\* C4: a peek() that returns, returns the element at offset cursor from the
\* consumption point, and a second peek() right after it returns the same
\* value and leaves cursor, queue and source as the first call left them.
C4_PeekIsIdempotent ==
    (call.op = "peek" /\ ret.kind = "Option") =>
        /\ ret = RetOption(PositionAt(cursor))
        /\ peek(self).ret = ret
        /\ peek(self).self = self

C4_Witness ==
    /\ call.op = "peek"
    /\ ret.kind = "Option"
    /\ ULe(usize(1), cursor)
    /\ passed >= 1
    /\ usize(Len(queue)) = saturating_add(cursor, usize(1))
    /\ ret.val # None

\* C5: every next() call (next_if's included) leaves cursor at
\* max(0, cursor before - 1).
C5_NextShiftsCursor ==
    [][nexts' # nexts => cursor' = saturating_sub(cursor, usize(1))]_vars

C5_Witness ==
    /\ call.op = "next"
    /\ ret.val = None
    /\ ULe(usize(1), cursor)

\* C6: across a next() call with cursor >= 1 peek() keeps returning the same
\* element; with cursor = 0 peek() after it returns the element following
\* the consumed one.
C6_PeekFollowsConsumption ==
    [][call'.op = "next" =>
         IF ULe(usize(1), cursor)
         THEN peek(selfAfter).ret = peek(self).ret
         ELSE peek(selfAfter).ret = RetOption(Position(passed + 1))]_vars

C6_Witness ==
    /\ call.op = "next"
    /\ ULe(usize(1), cursor)
    /\ ret.val # None
    /\ peek(self).ret.val # None
    /\ peek(self).ret # ret

\* C7: truncate_iterator_to_cursor() ends with cursor = 0, and peek() right
\* after it returns what peek() would have returned right before it.
C7_TruncateKeepsPeek ==
    [][call'.op = "truncate_iterator_to_cursor" =>
         /\ cursor' = usize(0)
         /\ peek(selfAfter).ret = peek(self).ret]_vars

C7_Witness ==
    /\ call.op = "truncate_iterator_to_cursor"
    /\ passed > nexts
    /\ queue = << >>
    /\ peek(self).ret.val # None

\* C8: truncate_iterator_to_cursor() with cursor = c discards exactly the
\* offsets 0..c-1: the next() calls after it return the source elements from
\* offset c onward in order, and right after it peek() equals what next()
\* returns.
C8_TruncateDiscardsPrefix ==
    [][call'.op = "truncate_iterator_to_cursor" =>
         /\ \A k \in 0..MaxSrcLen :
               NextTimes(selfAfter, k + 1).ret =
                  RetOption(Position(passed + nat(cursor) + k))
         /\ peek(selfAfter).ret = next(selfAfter).ret]_vars

C8_Witness ==
    /\ call.op = "truncate_iterator_to_cursor"
    /\ passed >= nexts + 2
    /\ Len(queue) >= 1
    /\ next(self).ret.val # None

\* C9: a backward cursor operation that returns ElementHasBeenConsumed
\* leaves cursor, queue and source exactly as they were.
C9_ErrorLeavesStateUntouched ==
    [][(call'.op \in BackwardOps /\ ret'.kind = RetErr.kind) =>
         /\ cursor' = cursor
         /\ queue' = queue
         /\ iterator' = iterator]_vars

C9_Witness ==
    /\ call.op = "peek_backward"
    /\ ret.kind = RetErr.kind
    /\ ULe(usize(1), cursor)
    /\ ULt(cursor, call.n)
    /\ iterator.idx < Len(Source)

\* C10: move_cursor_back_by(n) fails exactly when cursor < n and otherwise
\* lowers cursor by exactly n; move_cursor_back() is move_cursor_back_by(1).
C10_MoveBackByIsExact ==
    [][/\ call'.op = "move_cursor_back_by" =>
            IF ULt(cursor, call'.n)
            THEN ret' = RetErr /\ cursor' = cursor
            ELSE ret' = RetOkSelf /\ cursor' = wrapping_sub(cursor, call'.n)
       /\ call'.op = "move_cursor_back" =>
            /\ IF ULt(cursor, usize(1))
               THEN ret' = RetErr /\ cursor' = cursor
               ELSE ret' = RetOkSelf
                    /\ cursor' = wrapping_sub(cursor, usize(1))
            /\ selfAfter = move_cursor_back_by(self, usize(1)).self]_vars

C10_Witness ==
    /\ call.op = "move_cursor_back_by"
    /\ ULe(usize(2), call.n)
    /\ ret = RetOkSelf
    /\ ULe(usize(1), cursor)

\* C11: move_cursor_back_or_reset(n) never fails and leaves cursor at
\* cursor - n when n <= cursor and at 0 otherwise; peek_backward_or_first(n)
\* moves the cursor the same way and returns the element at the new cursor.
C11_BackOrResetClamps ==
    [][/\ call'.op = "move_cursor_back_or_reset" =>
            /\ ret' = RetSelf
            /\ cursor' = IF ULe(call'.n, cursor)
                         THEN wrapping_sub(cursor, call'.n) ELSE usize(0)
            /\ queue' = queue
            /\ iterator' = iterator
       /\ (call'.op = "peek_backward_or_first" /\ ret'.kind = "Option") =>
            /\ cursor' = IF ULe(call'.n, cursor)
                         THEN wrapping_sub(cursor, call'.n) ELSE usize(0)
            /\ ret' = RetOption(PositionAt(cursor'))]_vars

C11_Witness ==
    /\ call.op = "peek_backward_or_first"
    /\ call.n = usize(2)
    /\ cursor = usize(0)
    /\ passed >= 1
    /\ ret.kind = "Option"
    /\ ret.val # None
    /\ Len(queue) >= 2

\* C12: peek_previous() with cursor >= 1 moves the cursor back by exactly one
\* and returns Ok of the slot at the new cursor (Ok(None) past the end of the
\* source); with cursor = 0 it returns the error and leaves cursor at 0, and
\* does so again when called again.
C12_PeekPreviousStepsBack ==
    [][(call'.op = "peek_previous" /\ ret'.kind # "Panic") =>
         IF ULe(usize(1), cursor)
         THEN /\ cursor' = wrapping_sub(cursor, usize(1))
              /\ ret' = RetOk(PositionAt(cursor'))
         ELSE /\ ret' = RetErr
              /\ selfAfter = self
              /\ peek_previous(selfAfter) = [self |-> self, ret |-> RetErr]]_vars

C12_Witness ==
    /\ call.op = "peek_previous"
    /\ ret = RetOk(None)
    /\ ULe(usize(1), cursor)
    /\ passed >= 1

\* C13 (as amended): for every cursor value c below usize::MAX,
\* advance_cursor() followed at once by move_cursor_back() succeeds and
\* restores the cursor to c; at usize::MAX advance_cursor() saturates and the
\* pair leaves the cursor at usize::MAX - 1; move_cursor_back() at cursor = 0
\* fails without changing the state.
C13_AdvanceThenBackBelowMax ==
    [][/\ call'.op = "advance_cursor" =>
            LET back == move_cursor_back(selfAfter)
            IN  /\ back.ret = RetOkSelf
                /\ back.self.cursor =
                      IF ULt(cursor, USIZE_MAX) THEN cursor
                      ELSE wrapping_sub(USIZE_MAX, usize(1))
                /\ back.self.queue = queue
                /\ back.self.iterator = iterator
       /\ (call'.op = "move_cursor_back" /\ cursor = usize(0)) =>
            /\ ret' = RetErr
            /\ selfAfter = self]_vars

C13_Witness ==
    /\ call.op = "advance_cursor"
    /\ cursor = usize(2)
    /\ Len(queue) >= 1
    /\ move_cursor_back(self).ret = RetOkSelf
    /\ move_cursor_back(self).self.cursor = usize(1)

\* C13 (as claimed): for every cursor value c in the usize range,
\* advance_cursor() followed at once by move_cursor_back() succeeds and
\* restores the cursor to c.
C13_AdvanceThenBackRestores ==
    [][call'.op = "advance_cursor" =>
         LET back == move_cursor_back(selfAfter)
         IN  /\ back.ret = RetOkSelf
             /\ back.self.cursor = cursor]_vars

\* C14 (as claimed): advance_cursor_by(n) never panics and leaves cursor at
\* cursor + n, saturated at usize::MAX; a peek_forward(n) that returns has
\* moved the cursor the same way.
C14_AdvanceBySaturates ==
    [][/\ call'.op = "advance_cursor_by" =>
            /\ ret' = RetSelf
            /\ cursor' = saturating_add(cursor, call'.n)
       /\ (call'.op = "peek_forward" /\ ret'.kind = "Option") =>
            cursor' = saturating_add(cursor, call'.n)]_vars

\* the predicate of the next_if / next_if_eq call c, as the set of items it
\* accepts, and whether it holds for the front element
FuncOf(c) == c.set
HoldsForFront(c) ==
    /\ Position(passed) # None
    /\ Position(passed)[1] \in FuncOf(c)

NextIfOps == {"next_if", "next_if_eq"}

\* the predicate of the advance_cursor_while call c
PredicateOf(c) == [some |-> c.set, none |-> c.n = usize(1)]

\* C15: an advance_cursor_while(pred) that returns leaves the cursor at the
\* smallest offset c >= the initial cursor whose peeked value (an element, or
\* None past the end) fails pred; the cursor is unchanged when the value at
\* the initial cursor already fails pred.
C15_WhileStopsAtFirstRejected ==
    [][(call'.op = "advance_cursor_while" /\ ret'.kind = "Self") =>
         LET pred == PredicateOf(call')
         IN  /\ ULe(cursor, cursor')
             /\ ~Accepts(pred, PositionAt(cursor'))
             /\ \A c \in nat(cursor)..(nat(cursor') - 1) :
                   Accepts(pred, Position(passed + c))
             /\ ~Accepts(pred, PositionAt(cursor)) => cursor' = cursor]_vars

C15_Witness ==
    /\ call.op = "advance_cursor_while"
    /\ ret.kind = "Self"
    /\ ULe(usize(1), cursor)
    /\ passed >= 1
    /\ PositionAt(cursor) # None
    /\ PositionAt(wrapping_sub(cursor, usize(1)))[1] \in call.set

\* C16: next_if(pred) tests pred on the element at offset 0 whatever the
\* cursor is; when that element exists and pred holds it returns it, having
\* consumed exactly that element, with cursor = max(0, cursor - 1) (a cursor
\* ahead of the front keeps its element); otherwise it returns None.
\* next_if_eq(expected) does the same with equality to expected.
C16_NextIfTestsFront ==
    [][call'.op \in NextIfOps =>
         IF HoldsForFront(call')
         THEN /\ ret' = RetOption(Position(passed))
              /\ cursor' = saturating_sub(cursor, usize(1))
              /\ next(selfAfter).ret = RetOption(Position(passed + 1))
              /\ ULe(usize(1), cursor) =>
                    peek(selfAfter).ret = peek(self).ret
         ELSE ret' = RetOption(None)]_vars

C16_Witness ==
    /\ call.op = "next_if"
    /\ ret.val # None
    /\ ret.val[1] \in call.set
    /\ ULe(usize(1), cursor)
    /\ peek(self).ret.val # None
    /\ peek(self).ret.val[1] \notin call.set

\* C17: when pred does not hold for the front element, or there is none,
\* next_if(pred) returns None, consumes nothing, and leaves the cursor, the
\* value of peek() and the value of the next next() unchanged.
C17_NextIfRejectedKeepsView ==
    [][(call'.op \in NextIfOps /\ ~HoldsForFront(call')) =>
         /\ ret' = RetOption(None)
         /\ cursor' = cursor
         /\ peek(selfAfter).ret = peek(self).ret
         /\ next(selfAfter).ret = next(self).ret
         /\ \A k \in 1..(MaxSrcLen + 1) :
               NextTimes(selfAfter, k).ret = NextTimes(self, k).ret]_vars

C17_Witness ==
    /\ call.op = "next_if"
    /\ call.set # {}
    /\ ret.val = None
    /\ ULe(usize(1), cursor)
    /\ passed >= 1
    /\ Position(passed) # None

\* C18 (as amended): when pred does not hold for the front element, or there
\* is none, next_if(pred) leaves the cursor and every buffered slot as they
\* were; with a non-empty queue it pulls nothing, and with an empty queue it
\* pulls exactly one position from the source and buffers it.
C18_NextIfRejectedBuffersFront ==
    [][(call'.op \in NextIfOps /\ ~HoldsForFront(call')) =>
         /\ cursor' = cursor
         /\ IF queue = << >>
            THEN /\ queue' = << Position(passed) >>
                 /\ iterator'.idx = iterator.idx + 1
            ELSE /\ queue' = queue
                 /\ iterator' = iterator]_vars

C18_Witness ==
    /\ call.op = "next_if"
    /\ call.set # {}
    /\ ret.val = None
    /\ passed >= 1
    /\ Len(queue) = 1
    /\ queue[1] # None
    /\ iterator.idx = passed + 1

\* C18 (as claimed): when pred does not hold, next_if(pred) changes nothing:
\* cursor, queue and the number of pulls made are as before the call, also
\* when the queue was empty on entry.
C18_NextIfRejectedMutatesNothing ==
    [][(call'.op \in NextIfOps /\ ~HoldsForFront(call')) =>
         /\ cursor' = cursor
         /\ queue' = queue
         /\ iterator' = iterator]_vars

\* C19: a peek_range(start, end) that returns, returns exactly end - start
\* entries, the i-th being the element at offset start + i from the
\* consumption point and None at or past the end of the source;
\* peek_amount(n) is peek_range(0, n); after a next() the view is shifted by
\* one element.
C19_PeekRangeIsPaddedWindow ==
    [][/\ (call'.op = "peek_range" /\ ret'.kind = "Slice") =>
            ret' = RetSlice([i \in 1..(nat(call'.m) - nat(call'.n)) |->
                               Position(passed + nat(call'.n) + i - 1)])
       /\ call'.op = "peek_amount" =>
            /\ ret' = RetSlice([i \in 1..nat(call'.n) |->
                                  Position(passed + i - 1)])
            /\ ret' = peek_range(self, usize(0), call'.n).ret
       /\ call'.op = "next" =>
            peek_amount(selfAfter, usize(MaxArg)).ret.val =
               Tail(peek_amount(self, usize(MaxArg + 1)).ret.val)]_vars

C19_Witness ==
    /\ call.op = "peek_range"
    /\ ULt(call.n, call.m)
    /\ passed >= 1
    /\ ULe(usize(1), cursor)
    /\ ret.kind = "Slice"
    /\ Len(ret.val) = 2
    /\ ret.val[1] # None
    /\ ret.val[2] = None

\* the methods that address the queue from its front
FrontOps == {"peek_range", "peek_amount", "peek_nth", "peek_first"}

FrontCall(s, c) ==
    CASE c.op = "peek_range" -> peek_range(s, c.n, c.m)
      [] c.op = "peek_amount" -> peek_amount(s, c.n)
      [] c.op = "peek_nth" -> peek_nth(s, c.n)
      [] OTHER -> peek_first(s)

\* C20: peek_range, peek_amount, peek_nth and peek_first neither read nor
\* modify the cursor: whatever the cursor is they return the same value, and
\* the cursor is the same after the call.
C20_FrontPeeksIgnoreCursor ==
    [][call'.op \in FrontOps =>
         /\ cursor' = cursor
         /\ \A c \in CursorRange :
               LET r == FrontCall([self EXCEPT !.cursor = c], call')
               IN  /\ r.ret = ret'
                   /\ r.self.cursor = c
                   /\ r.self.queue = queue'
                   /\ r.self.iterator = iterator']_vars

C20_Witness ==
    /\ call.op = "peek_amount"
    /\ call.n = usize(2)
    /\ cursor = usize(MaxCursor)
    /\ passed >= 1
    /\ ret.val[1] # None
    /\ ULt(usize(Len(queue)), cursor)

\* C21 (as claimed): peek_range(start, end) panics when start > end and only
\* then, before any pull from the source and any change to queue or cursor.
C21_PanicsOnlyOnInvalidRange ==
    [][call'.op = "peek_range" =>
         /\ ret'.kind = "Panic" <=> ULt(call'.m, call'.n)
         /\ ret'.kind = "Panic" =>
               /\ iterator' = iterator
               /\ queue' = queue
               /\ cursor' = cursor]_vars

\* C22 (as claimed): from the same state and for the same end bound,
\* peek_range leaves the same queue and the same number of pulls whether the
\* call takes the batched path (peek_range_optimized) or the one-at-a-time
\* path (fill_queue).
C22_BatchedEqualsUnbatched ==
    [][(/\ call'.op = "peek_range"
        /\ ret'.kind = "Slice"
        /\ ULt(usize(RANGE_BATCH_THRESHOLD),
               wrapping_sub(call'.m, call'.n))) =>
         LET direct == peek_range_direct(self, call'.n, call'.m)
         IN  /\ queue' = direct.self.queue
             /\ iterator' = direct.self.iterator]_vars

\* the number of elements the wrapped source still holds past the
\* consumption point: what an exact-size source reports, plus the buffered
\* elements
Remaining == Max(0, Len(Source) - passed)

\* C23 (as claimed): over an exact-size source len() succeeds in every
\* reachable state and reports the number of elements next() will still
\* yield.
C23_LenReportsRemaining ==
    [][call'.op = "len" => ret' = RetUsize(usize(Remaining))]_vars

\* C24: over a fused source, once a next() call has returned None every later
\* next() call returns None, whatever calls are made in between.
C24_FusedOnceExhausted ==
    []((call.op = "next" /\ ret = RetOption(None)) =>
          [](call.op = "next" => ret = RetOption(None)))

C24_Witness ==
    /\ call.op = "next"
    /\ ret = RetOption(None)
    /\ nexts >= 2
    /\ passed > nexts
    /\ passed > Len(Source) + 1
    /\ Len(Source) >= 1

\* C25 (as claimed): peek(), peek_nth(n), peek_next() and peek_forward(n)
\* complete for every cursor value and offset up to the maximum, and return the
\* element at the addressed offset, None at or past the end of the source.
C25_PeeksAreTotal ==
    [][call'.op \in {"peek", "peek_nth", "peek_next", "peek_forward"} =>
         /\ ret'.kind = "Option"
         /\ call'.op = "peek_nth" => ret' = RetOption(PositionAt(call'.n))
         /\ call'.op # "peek_nth" => ret' = RetOption(PositionAt(cursor'))]_vars

\* the one-slot Peekable in the state that corresponds to adapter state s,
\* for a queue of at most one slot
PeekableOf(s) ==
    [iter |-> s.iterator,
     peeked |-> IF s.queue = << >> THEN None ELSE Some(Head(s.queue))]

\* C26: while the cursor is 0, an adapter driven by peek() and next() alone
\* (so with at most one buffered slot) behaves as a Peekable over the same
\* source: each call returns what the Peekable's call returns and leaves the
\* corresponding state; peek() returns what the next next() returns, and
\* next() returns the source elements in order.
C26_CursorZeroIsPeekable ==
    [][(/\ cursor = usize(0)
        /\ Len(queue) <= 1
        /\ call'.op \in {"peek", "next"}) =>
         LET r == IF call'.op = "peek" THEN Peekable_peek(PeekableOf(self))
                  ELSE Peekable_next(PeekableOf(self))
         IN  /\ ret' = r.ret
             /\ cursor' = usize(0)
             /\ Len(queue') <= 1
             /\ PeekableOf(selfAfter) = r.self
             /\ ret' = RetOption(Position(passed))
             /\ call'.op = "peek" => next(selfAfter).ret = ret']_vars

C26_Witness ==
    /\ call.op = "next"
    /\ cursor = usize(0)
    /\ queue = << >>
    /\ nexts >= 2
    /\ passed = nexts
    /\ iterator.idx = passed
    /\ ret.val # None

\* the operations of the peek family
PeekOps ==
    {"peek", "peek_nth", "peek_first", "peek_next", "peek_previous",
     "peek_forward", "peek_backward", "peek_backward_or_first", "peek_range",
     "peek_amount"}

\* C27 (as amended): wrapping a source yields an adapter with empty queue and
\* cursor 0 and pulls nothing; the first pull from the source is made by a
\* peek-family call, next(), next_if(), next_if_eq(), advance_cursor_while(),
\* advance_cursor_by_optimized() or a truncate with cursor > 0.
C27_FirstPullIsLazy ==
    [][/\ call.op = "peekmore" =>
            (queue = << >> /\ cursor = usize(0) /\ iterator.idx = 0)
       /\ (iterator.idx = 0 /\ iterator'.idx > 0) =>
            \/ call'.op \in PeekOps \cup NextIfOps
            \/ call'.op \in {"next", "advance_cursor_while",
                             "advance_cursor_by_optimized"}
            \/ /\ call'.op = "truncate_iterator_to_cursor"
               /\ ULt(usize(0), cursor)]_vars

C27_Witness ==
    /\ call.op = "advance_cursor_while"
    /\ iterator.idx = 1
    /\ passed = 0
    /\ cursor = usize(0)
    /\ queue # << >>
    /\ queue[1] # None

\* C27 (as claimed): the first pull from the source is made only by a
\* peek-family call, next(), next_if() or a truncate with cursor > 0.
C27_FirstPullOnlyByPeekOrNext ==
    [][/\ call.op = "peekmore" =>
            (queue = << >> /\ cursor = usize(0) /\ iterator.idx = 0)
       /\ (iterator.idx = 0 /\ iterator'.idx > 0) =>
            \/ call'.op \in PeekOps \cup NextIfOps
            \/ call'.op = "next"
            \/ /\ call'.op = "truncate_iterator_to_cursor"
               /\ ULt(usize(0), cursor)]_vars

\* C28: move_nth(n) sets the cursor to exactly n whatever the cursor, the
\* queue length and the source length were, and touches nothing else; a
\* following peek() that returns, returns the element at offset n (None at or
\* past the end of the source), and peek_nth(0) returns what it returned
\* before.
C28_MoveNthSetsCursor ==
    [][call'.op = "move_nth" =>
         /\ ret' = RetSelf
         /\ cursor' = call'.n
         /\ queue' = queue
         /\ iterator' = iterator
         /\ peek_nth(selfAfter, usize(0)).ret = peek_nth(self, usize(0)).ret
         /\ ~peek(selfAfter).self.aborted =>
               peek(selfAfter).ret = RetOption(PositionAt(call'.n))]_vars

C28_Witness ==
    /\ call.op = "move_nth"
    /\ call.n = usize(MaxArg)
    /\ cursor = usize(MaxArg)
    /\ passed >= 1
    /\ Len(queue) = 1
    /\ queue[1] # None

\* the operations that only move the cursor (reset_view is the deprecated
\* name of reset_cursor)
PureCursorOps ==
    {"advance_cursor", "advance_cursor_by", "move_cursor_back",
     "move_cursor_back_by", "move_cursor_back_or_reset", "move_nth",
     "reset_cursor", "reset_view"}

\* C29: advance_cursor, advance_cursor_by, move_cursor_back,
\* move_cursor_back_by, move_cursor_back_or_reset, move_nth and reset_cursor
\* leave the queue and the source position as they were, however far past the
\* buffered region the cursor is moved.
C29_CursorOpsTouchOnlyCursor ==
    [][call'.op \in PureCursorOps =>
         /\ queue' = queue
         /\ iterator' = iterator
         /\ passed' = passed]_vars

C29_Witness ==
    /\ call.op = "advance_cursor"
    /\ ret = RetSelf
    /\ cursor = USIZE_MAX
    /\ Len(queue) = 1
    /\ iterator.idx = passed + 1
    /\ passed >= 1

\* C30: fill_queue(k), on the one-at-a-time and on the batched path: with
\* Len(queue) <= k it pulls the source exactly k + 1 - Len(queue) times and
\* appends every result in order, end-of-source results included, so that the
\* queue has k + 1 slots; with Len(queue) > k it pulls nothing and changes
\* nothing; the slots already queued stay as they are.
C30_FillQueueIsExact ==
    [][call'.op = "fill_queue" =>
         LET k == nat(call'.n)
             len_before == Len(queue)
         IN  /\ cursor' = cursor
             /\ IF len_before <= k
                THEN /\ Len(queue') = k + 1
                     /\ iterator'.idx = iterator.idx + (k + 1 - len_before)
                     /\ SubSeq(queue', 1, len_before) = queue
                     /\ \A i \in (len_before + 1)..(k + 1) :
                           queue'[i] =
                              SourceAt(Source, iterator.idx + i - len_before - 1)
                ELSE /\ queue' = queue
                     /\ iterator' = iterator]_vars

C30_Witness ==
    /\ call.op = "fill_queue"
    /\ call.n = usize(FILL_BATCH_THRESHOLD + CHUNK_SIZE)
    /\ Len(queue) = nat(call.n) + 1
    /\ passed >= 1
    /\ Len(Source) = LongSrcLen
    /\ queue[Len(queue)] = Some(passed + Len(queue))

\* C31: truncate_iterator_to_cursor() with cursor <= Len(queue) removes
\* exactly the first `cursor` slots of the queue, keeps the remaining slots in
\* order and does not pull the source; with cursor > Len(queue) it pulls the
\* source exactly cursor - Len(queue) times, discards what it pulled and
\* leaves the queue empty.
C31_TruncateDrainsOrDiscards ==
    [][call'.op = "truncate_iterator_to_cursor" =>
         IF ULe(cursor, usize(Len(queue)))
         THEN /\ queue' = SubSeq(queue, nat(cursor) + 1, Len(queue))
              /\ iterator' = iterator
         ELSE /\ iterator'.idx = iterator.idx + (nat(cursor) - Len(queue))
              /\ iterator'.items = iterator.items
              /\ queue' = << >>]_vars

C31_Witness ==
    /\ call.op = "truncate_iterator_to_cursor"
    /\ passed > nexts
    /\ Len(queue) >= 2
    /\ iterator.idx = passed + Len(queue)

\* C32 (as claimed): advance_cursor() and peek_next() complete for every
\* cursor value; at cursor = usize::MAX they leave the cursor at usize::MAX,
\* below it they leave cursor + 1.
C32_SingleStepSaturates ==
    [][call'.op \in {"advance_cursor", "peek_next"} =>
         /\ ret'.kind # "Panic"
         /\ cursor' = IF cursor = USIZE_MAX THEN USIZE_MAX
                      ELSE wrapping_add(cursor, usize(1))]_vars

\* what the calls named in C33 return on adapter state s: peek(), the
\* next() calls up to the end of the source, peek_range(0, end), and the
\* next() calls after truncate_iterator_to_cursor() (where its discard loop
\* is within MaxPulls)
FollowingResults(s) ==
    [peeked |-> peek(s).ret,
     nexts |-> [k \in 1..(MaxSrcLen + 1) |-> NextTimes(s, k).ret],
     ranges |-> [end \in Args |-> peek_range(s, usize(0), end).ret],
     truncated |->
        IF ULe(saturating_sub(s.cursor, usize(Len(s.queue))), usize(MaxPulls))
        THEN [k \in 1..(MaxSrcLen + 1) |->
                 NextTimes(truncate_iterator_to_cursor(s).self, k).ret]
        ELSE << >>]

\* C33 (as claimed): advance_cursor_by_optimized(n) completes whenever
\* advance_cursor_by(n) does and leaves the same cursor; peek, peek_range,
\* next and truncate_iterator_to_cursor return the same values after either;
\* n = 0 leaves cursor and queue unchanged.
C33_OptimizedEqualsPlain ==
    [][call'.op = "advance_cursor_by_optimized" =>
         LET plain == advance_cursor_by(self, call'.n, FALSE).self
         IN  IF ret'.kind = "Panic"
             THEN AddOverflows(cursor, call'.n)
             ELSE /\ cursor' = plain.cursor
                  /\ FollowingResults(selfAfter) = FollowingResults(plain)
                  /\ call'.n = usize(0) =>
                        (cursor' = cursor /\ queue' = queue)]_vars

\* C34 (as claimed): a peek_range(start, end) that returns a view has pulled
\* the source as far as position passed + end and no further: the number of
\* pulls after the call is the larger of the number before it and
\* passed + end.
C34_RangePullsOnlyTheView ==
    [][(call'.op = "peek_range" /\ ret'.kind = "Slice") =>
         iterator'.idx = Max(iterator.idx, passed + nat(call'.m))]_vars

\* C35: truncate_iterator_to_cursor() with cursor = 0 changes nothing that
\* can be observed: the cursor stays 0, the source is not pulled, and peek()
\* and the next() calls after it return what they would have returned
\* without it; so a second truncate_iterator_to_cursor() right after a first
\* one changes nothing.
C35_TruncateAtZeroIsNoOp ==
    [][call'.op = "truncate_iterator_to_cursor" =>
         /\ cursor = usize(0) =>
               /\ cursor' = usize(0)
               /\ iterator' = iterator
               /\ peek(selfAfter).ret = peek(self).ret
               /\ \A k \in 1..(MaxSrcLen + 1) :
                     NextTimes(selfAfter, k).ret = NextTimes(self, k).ret
         /\ truncate_iterator_to_cursor(selfAfter).self = selfAfter]_vars

C35_Witness ==
    /\ call.op = "truncate_iterator_to_cursor"
    /\ passed = nexts
    /\ nexts >= 1
    /\ cursor = usize(0)
    /\ Len(queue) >= 2
    /\ queue[1] # None

\* no item is queued behind an end-of-source slot
ItemsThenMarkers(q) ==
    \A i \in 1..Len(q) : \A j \in i..Len(q) : q[i] = None => q[j] = None

\* peek_nth(n) on adapter state s returns None
PeekNthIsNone(s, n) == peek_nth(s, usize(n)).ret = RetOption(None)

\* the least offset from n on at which peek_nth on adapter state s returns
\* None (MaxSrcLen + 2 if there is none up to MaxSrcLen + 1)
RECURSIVE FirstNone(_, _)
FirstNone(s, n) ==
    IF n > MaxSrcLen + 1 \/ PeekNthIsNone(s, n) THEN n ELSE FirstNone(s, n + 1)

\* C36: over a fused source the queue is, in every reachable state, a run of
\* items followed by a run of end-of-source slots; and once peek_nth(n)
\* returns None, peek_nth(m) returns None for every m >= n, then and after
\* every later call: in every state every offset from the first None on
\* gives None, and the first None is never at a larger offset than before.
C36_ExhaustionIsSticky ==
    /\ [](/\ ItemsThenMarkers(queue)
          /\ \A m \in FirstNone(self, 0)..(MaxSrcLen + 1) :
                PeekNthIsNone(self, m))
    /\ [][FirstNone(selfAfter, 0) <= FirstNone(self, 0)]_vars

C36_Witness ==
    /\ call.op = "peek_nth"
    /\ ret = RetOption(None)
    /\ nexts >= 1
    /\ Len(queue) >= 3
    /\ queue[1] # None
    /\ queue[Len(queue) - 1] = None
    /\ ~PeekNthIsNone(self, 0)

\* every element from the cursor to the end of the source satisfies the
\* predicate of call c (so does "none" when the cursor is at or past the end)
AcceptsToTheEnd(c) ==
    \A k \in nat(cursor)..(Remaining - 1) :
       Accepts(PredicateOf(c), Position(passed + k))

\* C37: advance_cursor_while(pred) with a pred that rejects None returns,
\* with the cursor no greater than the larger of its initial value and the
\* number of unconsumed elements.  With a pred that accepts None, and every element from
\* the cursor to the end, it does not stop at the end of the source: the
\* calls nest deeper than the source is long, each with the cursor one step
\* further and the queue holding the slots up to it, None from the end of the
\* source on; the call does not return.
C37_WhileStopsUnlessNoneAccepted ==
    [][(call'.op = "advance_cursor_while" /\ ULt(cursor, VEC_MAX_LEN)) =>
         LET pred == PredicateOf(call')
         IN  IF pred.none /\ AcceptsToTheEnd(call')
             THEN /\ ret'.kind = "Panic"
                  /\ \A nested \in {advance_cursor_while_nested(
                                         self, pred, MaxSrcLen + 1)} :
                        /\ nested.reached
                        /\ nested.self.cursor =
                              wrapping_add(cursor, usize(MaxSrcLen + 1))
                        /\ Len(nested.self.queue) >=
                              nat(cursor) + MaxSrcLen + 1
                        /\ \A i \in (Remaining + 1)..Len(nested.self.queue) :
                              nested.self.queue[i] = None
             ELSE /\ ret'.kind = "Self"
                  /\ ULe(cursor', usize(Max(nat(cursor), Remaining)))]_vars

C37_Witness ==
    /\ call.op = "advance_cursor_while"
    /\ call.n = usize(1)
    /\ ret.kind = "Panic"
    /\ passed >= 1
    /\ Remaining >= 2
    /\ cursor = usize(Remaining)
    /\ usize(Len(queue)) = saturating_add(cursor, usize(1))
    /\ queue[1] # None
    /\ queue[Len(queue)] = None

\* C38 (as amended): in every reachable state, with u unconsumed elements,
\* the next u calls of next() return these elements in order and the
\* (u + 1)-th returns None, whatever the queue holds and wherever the cursor
\* points.  Each call takes one slot off a non-empty queue and one step off a
\* non-zero cursor, so after the u + 1 calls the queue is empty only if it
\* held at most u + 1 slots and the cursor is 0 only if it was at most u + 1.
C38_NextRunsToNone ==
    LET u == Remaining
        end == NextTimes(self, u + 1)
    IN  /\ \A k \in 1..u :
              NextTimes(self, k).ret = RetOption(Position(passed + k - 1))
        /\ \A k \in 1..u : Position(passed + k - 1) # None
        /\ end.ret = RetOption(None)
        /\ Len(end.self.queue) = Max(0, Len(queue) - (u + 1))
        /\ end.self.cursor = saturating_sub(cursor, usize(u + 1))

C38_Witness ==
    /\ call.op = "next"
    /\ ret = RetOption(None)
    /\ nexts = Len(Source) + 1
    /\ passed = nexts
    /\ Len(Source) >= 1
    /\ queue # << >>
    /\ ULe(usize(1), cursor)

\* C38 (as claimed): with u unconsumed elements the next u calls of next()
\* return an element and the (u + 1)-th returns None, and after it the queue
\* is empty and the cursor is 0.
C38_NextRunsToNoneAndResets ==
    LET u == Remaining
        end == NextTimes(self, u + 1)
    IN  /\ \A k \in 1..u : NextTimes(self, k).ret.val # None
        /\ end.ret = RetOption(None)
        /\ end.self.queue = << >>
        /\ end.self.cursor = usize(0)

\* C39 (as claimed): advance_cursor_while runs as a loop: no call of it makes
\* a nested call of itself, however many elements satisfy the predicate.
C39_WhileDoesNotNest ==
    [][(call'.op = "advance_cursor_while" /\ ret'.kind = "Self") =>
         ~advance_cursor_while_nested(self, PredicateOf(call'), 1).reached]_vars

====
